---- MODULE Spec2Model ----
(***************************************************************************)
(* experimenttools: metrics, a session that plots and serializes them, and *)
(* a session manager that throttles Session.update() by elapsed time or by *)
(* the number of observed metric updates.                                  *)
(*                                                                         *)
(* One session and one manager object are modelled.  Every action is one   *)
(* call made by the experiment script; the callbacks the call runs are     *)
(* part of the action.                                                     *)
(***************************************************************************)
EXTENDS Integers, Sequences, FiniteSets, TLC

\* ---------------------------------------------------------------- bounds
MaxCalls == 3       \* metric invocations made by the script
MaxTime == 3        \* last instant of the discrete clock (it starts at 1)
MaxFreq == 2        \* largest update_freq a manager is constructed with
MaxDirect == 1      \* direct Session.update() calls made by the script
MaxCbs == 2         \* callbacks the script itself registers on metrics
MaxFlush == 2       \* direct metric.serialize() calls made by the script

\* ------------------------------------------------------------- universe
Metrics == {"m0", "m1", "m2", "m3"}  \* metric objects the script creates
Vals == {0, 1}                       \* values the script reports
UpdateTypes == {"seconds", "updates", "bogus"}

\* Metric.name: m2 carries the same name as m0.
Name(m) == IF m = "m1" THEN "b" ELSE IF m = "m3" THEN "c" ELSE "a"
Names == {Name(m) : m \in Metrics}

\* m1 is a TimedNumericMetric, m3 a plain Metric, the others are
\* NumericMetric.
IsTimed(m) == m = "m1"

\* isinstance(metric, NumericMetric): the metric keeps values, and is a
\* SerializableMetric and a PlottableMetric
IsNumeric(m) == m # "m3"
IsSerializable(m) == IsNumeric(m)
IsPlottable(m) == IsNumeric(m)

NoValue == -1                        \* initial_value=None
NoTime == 0                          \* _start_time=None (falsy, like 0)

\* the errors the calls raise
Ok == "ok"
AlreadyManaging == "RuntimeError: SessionManager is already managing"
AlreadyClosed == "RuntimeError: SessionManager is already closed"
UnknownType == "ValueError: Uknown value for parameter 'update_type'"
NotInList == "ValueError: list.remove(x): x not in list"
DuplicateName == "ValueError: Session already has metric with name"
NotManaged == "RuntimeError: Use 'with manager.manage()' for context management"
ObserverError == "RuntimeError: raised by an on_update observer"
BodyError == "the exception raised by the body of the with statement"
Uninitialized == "ValueError: Metric has not been assigned a value yet."
ZeroDivision == "ZeroDivisionError"

VARIABLES
    now,              \* time.time()
    values,           \* NumericMetric._values, per metric
    times,            \* TimedMetric._times, per metric
    startTime,        \* TimedMetric._start_time, per metric
    sidx,             \* NumericMetric._serialization_idx, per metric
    mcbs,             \* Metric._callbacks, per metric
    files,            \* output_dir/serialized/<name>.txt, a list of lines
    html,             \* output_dir/index.html, the curves last plotted
    sMetrics,         \* Session._metrics
    sCallbacks,       \* Session.callbacks
    plotMetrics,      \* Session(plot_metrics=...)
    serializeMetrics, \* Session(serialize_metrics=...)
    mgr,              \* the SessionManager object
    inWith,           \* the script is inside `with manager.manage():`
    lastOp,           \* the call the last step made
    result,           \* how the call of the last step ended
    \* history variables
    calls,            \* number of metric invocations made
    hist,             \* the values each metric was invoked with, in order
    obsLog,           \* the updates process_metric_update observed
    trigLog,          \* the Session.update() calls the manager triggered
    nUpdates,         \* number of Session.update() calls, all callers
    nDirect,          \* number of those made by the script itself
    phase,            \* "idle", "managing" (manage() returned), "closed"
    closeCalls,       \* number of close() calls the last step made
    builtAt,          \* time at which the manager was constructed
    events,           \* what the script's session observer was told
    trace,            \* what the call of the last step did, in order
    nFlush            \* number of metric.serialize() calls by the script

vars == <<now, values, times, startTime, sidx, mcbs, files, html, sMetrics,
          sCallbacks, plotMetrics, serializeMetrics, mgr, inWith, lastOp,
          result, calls, hist, obsLog, trigLog, nUpdates, nDirect, phase,
          closeCalls, builtAt, events, trace, nFlush>>

\* ------------------------------------------------------------- helpers
Last(s) == s[Len(s)]

IsPrefix(s, t) == Len(s) <= Len(t) /\ SubSeq(t, 1, Len(s)) = s

Min(a, b) == IF a <= b THEN a ELSE b

InSeq(x, s) == \E i \in 1..Len(s) : s[i] = x

Count(x, s) == Cardinality({i \in 1..Len(s) : s[i] = x})

\* list.remove(x) taking away every occurrence of x
MutRemoveFirst(s, x) == SelectSeq(s, LAMBDA y : y # x)

\* list.remove(x): drops the first occurrence of x (x is in s)
RemoveFirst(s, x) ==
    LET i == CHOOSE j \in 1..Len(s) :
                 s[j] = x /\ \A k \in 1..(j - 1) : s[k] # x
    IN  SubSeq(s, 1, i - 1) \o SubSeq(s, i + 1, Len(s))

\* s[k:], k counted from 0 as in the source
From(s, k) == SubSeq(s, k + 1, Len(s))


\* ------------------------------------------------------------- metrics
\* NumericMetric.value: the last entry, ValueError on an empty history
HasValue(vals, m) == Len(vals[m]) > 0
Value(vals, m) == vals[m][Len(vals[m])]

\* the compound-update shorthands of NumericMetric that stay within the
\* integers (operands are integers, exponents and shift counts >= 0)
Ops == {"add", "sub", "mul", "floordiv", "mod", "pow", "lshift", "rshift",
        "and", "or", "xor"}

\* a & b, a | b, a ^ b on Python's unbounded two's-complement integers
RECURSIVE BitAnd(_, _)
BitAnd(a, b) ==
    IF a = 0 \/ b = 0 THEN 0
    ELSE IF a = -1 THEN b
    ELSE IF b = -1 THEN a
    ELSE 2 * BitAnd(a \div 2, b \div 2) + (a % 2) * (b % 2)

RECURSIVE BitOr(_, _)
BitOr(a, b) ==
    IF a = 0 THEN b
    ELSE IF b = 0 THEN a
    ELSE IF a = -1 \/ b = -1 THEN -1
    ELSE 2 * BitOr(a \div 2, b \div 2)
         + (IF a % 2 = 1 \/ b % 2 = 1 THEN 1 ELSE 0)

RECURSIVE BitXor(_, _)
BitXor(a, b) ==
    IF a = 0 THEN b
    ELSE IF b = 0 THEN a
    ELSE IF a = -1 THEN -b - 1
    ELSE IF b = -1 THEN -a - 1
    ELSE 2 * BitXor(a \div 2, b \div 2) + (((a % 2) + (b % 2)) % 2)

\* a ** k for an integer k >= 0 (0 ** 0 is 1)
RECURSIVE Pow(_, _)
Pow(a, k) == IF k = 0 THEN 1 ELSE a * Pow(a, k - 1)

\* self.value <op> val, as Python evaluates it
Apply(op, v, k) ==
    IF op \in {"floordiv", "mod"} /\ k = 0
    THEN [res |-> ZeroDivision, val |-> 0]
    ELSE [res |-> Ok,
          val |-> CASE op = "add" -> v + k
                    [] op = "sub" -> v - k
                    [] op = "mul" -> v * k
                    [] op = "floordiv" -> v \div k
                    [] op = "mod" -> v % k
                    [] op = "pow" -> Pow(v, k)
                    [] op = "lshift" -> v * Pow(2, k)
                    [] op = "rshift" -> v \div Pow(2, k)
                    [] op = "and" -> BitAnd(v, k)
                    [] op = "or" -> BitOr(v, k)
                    [] op = "xor" -> BitXor(v, k)]

\* TimedMetric.start_time: captured on first use
StartTime(st, m, t) == IF st[m] = NoTime THEN t ELSE st[m]

\* TimedMetric.elapsed_time
ElapsedTime(st, m, t) == t - StartTime(st, m, t)

\* f"{value}\n" for each value of a slice
NumericLines(vs) == [i \in 1..Len(vs) |-> ToString(vs[i])]

\* f"{time},{value}\n" for each pair of zip(ts, vs)
TimedLines(ts, vs) ==
    [i \in 1..Min(Len(ts), Len(vs)) |->
        ToString(ts[i]) \o "," \o ToString(vs[i])]

\* NumericMetric.serialize(file), on the world w
NumericSerialize(m, w, vals) ==
    LET new == NumericLines(From(vals[m], w.sidx[m]))
        head == IF w.sidx[m] = 0 THEN <<"value">> ELSE <<>>
    IN  [w EXCEPT !.files[Name(m)] = @ \o head \o new,
                  !.sidx[m] = @ + Len(new)]

\* serialize pairing the rows to write with the times from the start
MutTimedSerialize(m, w, vals, tms) ==
    LET new == TimedLines(tms[m], From(vals[m], w.sidx[m]))
        head == IF w.sidx[m] = 0 THEN <<"time,value">> ELSE <<>>
    IN  [w EXCEPT !.files[Name(m)] = @ \o head \o new,
                  !.sidx[m] = @ + Len(new)]

\* TimedNumericMetric.serialize(file), on the world w
TimedSerialize(m, w, vals, tms) ==
    LET new == TimedLines(From(tms[m], w.sidx[m]), From(vals[m], w.sidx[m]))
        head == IF w.sidx[m] = 0 THEN <<"time,value">> ELSE <<>>
    IN  [w EXCEPT !.files[Name(m)] = @ \o head \o new,
                  !.sidx[m] = @ + Len(new)]

MetricSerialize(m, w, vals, tms) ==
    IF IsTimed(m) THEN TimedSerialize(m, w, vals, tms)
    ELSE NumericSerialize(m, w, vals)

\* NumericMetric.plot / TimedNumericMetric.plot: the curve's data
MetricPlot(m, vals, tms) ==
    [name |-> Name(m),
     x |-> IF IsTimed(m) THEN tms[m]
           ELSE [i \in 1..Len(vals[m]) |-> i - 1],
     y |-> vals[m]]

\* ------------------------------------------------------------- session
\* Session.serialize: every serializable metric of the session, in
\* insertion order
RECURSIVE SerializeFrom(_, _, _, _)
SerializeFrom(i, w, vals, tms) ==
    IF i > Len(sMetrics) THEN w
    ELSE SerializeFrom(i + 1,
                       IF IsSerializable(sMetrics[i])
                       THEN MetricSerialize(sMetrics[i], w, vals, tms)
                       ELSE w,
                       vals, tms)

SessionSerialize(w, vals, tms) ==
    SerializeFrom(1, [w EXCEPT !.trace = Append(@, <<"serialize">>)],
                  vals, tms)

\* Session.plot: one layout holding the curve of every plottable metric
SessionPlot(w, vals, tms) ==
    LET ms == SelectSeq(sMetrics, IsPlottable)
    IN  [w EXCEPT !.html =
                      <<[i \in 1..Len(ms) |-> MetricPlot(ms[i], vals, tms)]>>,
                  !.trace = Append(@, <<"plot">>)]

\* on_update of one session callback: the manager's LambdaSessionCallback
\* keeps the base no-op, the script's observer records the event
OnUpdate(cb, w) ==
    IF cb = "usr"
    THEN [w EXCEPT !.events = Append(@, <<"update">>),
                   !.trace = Append(@, <<"on_update", cb>>)]
    ELSE [w EXCEPT !.trace = Append(@, <<"on_update", cb>>)]

RECURSIVE CallOnUpdate(_, _)
CallOnUpdate(i, w) ==
    IF i > Len(sCallbacks) THEN w
    ELSE CallOnUpdate(i + 1, OnUpdate(sCallbacks[i], w))

\* update telling the observers before running the update actions
MutSessionUpdate(w, vals, tms, d) ==
    LET w0 == CallOnUpdate(1, w)
        w1 == IF plotMetrics THEN SessionPlot(w0, vals, tms) ELSE w0
        w2 == IF serializeMetrics THEN SessionSerialize(w1, vals, tms)
              ELSE w1
    IN  [w2 EXCEPT !.now = @ + d, !.nUpdates = @ + 1]

\* Session.update restarting the manager's throttling as well
MutSessionUpdate_Reset(w, vals, tms, d) ==
    LET w1 == IF plotMetrics THEN SessionPlot(w, vals, tms) ELSE w
        w2 == IF serializeMetrics THEN SessionSerialize(w1, vals, tms)
              ELSE w1
        w3 == [w2 EXCEPT !.now = @ + d, !.nUpdates = @ + 1,
                         !.mgr.num = 0, !.mgr.last = w2.now + d]
    IN  CallOnUpdate(1, w3)

\* Session.update: plot, then serialize, then on_update; the clock moves
\* by d while the actions run
SessionUpdate(w, vals, tms, d) ==
    LET w1 == IF plotMetrics THEN SessionPlot(w, vals, tms) ELSE w
        w2 == IF serializeMetrics THEN SessionSerialize(w1, vals, tms)
              ELSE w1
        w3 == [w2 EXCEPT !.now = @ + d, !.nUpdates = @ + 1]
    IN  CallOnUpdate(1, w3)

\* ------------------------------------------------------------- manager
\* process_metric_update comparing the count before incrementing it
MutProcessMetricUpdate_Late(w, m, vals, tms, d) ==
    LET o == [w EXCEPT !.obsLog = Append(@, <<m, Len(vals[m])>>)]
    IN  IF o.mgr.type = "seconds"
        THEN IF o.now - o.mgr.last >= o.mgr.freq
             THEN LET u == SessionUpdate(o, vals, tms, d)
                  IN  [u EXCEPT !.mgr.last = u.now,
                                !.trigLog = Append(@, [start |-> o.now,
                                                       finish |-> u.now])]
             ELSE o
        ELSE IF o.mgr.num >= o.mgr.freq
             THEN LET u == SessionUpdate(o, vals, tms, d)
                  IN  [u EXCEPT !.mgr.num = 0,
                                !.trigLog = Append(@, [start |-> o.now,
                                                       finish |-> u.now])]
             ELSE [o EXCEPT !.mgr.num = @ + 1]

\* process_metric_update taking the timestamp before the session update
MutProcessMetricUpdate_Stamp(w, m, vals, tms, d) ==
    LET o == [w EXCEPT !.obsLog = Append(@, <<m, Len(vals[m])>>)]
    IN  IF o.mgr.type = "seconds"
        THEN IF o.now - o.mgr.last >= o.mgr.freq
             THEN LET u == SessionUpdate(o, vals, tms, d)
                  IN  [u EXCEPT !.mgr.last = o.now,
                                !.trigLog = Append(@, [start |-> o.now,
                                                       finish |-> u.now])]
             ELSE o
        ELSE IF o.mgr.num + 1 >= o.mgr.freq
             THEN LET u == SessionUpdate(o, vals, tms, d)
                  IN  [u EXCEPT !.mgr.num = 0,
                                !.trigLog = Append(@, [start |-> o.now,
                                                       finish |-> u.now])]
             ELSE [o EXCEPT !.mgr.num = @ + 1]

\* SessionManager.process_metric_update
ProcessMetricUpdate(w, m, vals, tms, d) ==
    LET o == [w EXCEPT !.obsLog = Append(@, <<m, Len(vals[m])>>)]
    IN  IF o.mgr.type = "seconds"
        THEN IF o.now - o.mgr.last >= o.mgr.freq
             THEN LET u == SessionUpdate(o, vals, tms, d)
                  IN  [u EXCEPT !.mgr.last = u.now,
                                !.trigLog = Append(@, [start |-> o.now,
                                                       finish |-> u.now])]
             ELSE o
        ELSE IF o.mgr.num + 1 >= o.mgr.freq
             THEN LET u == SessionUpdate(o, vals, tms, d)
                  IN  [u EXCEPT !.mgr.num = 0,
                                !.trigLog = Append(@, [start |-> o.now,
                                                       finish |-> u.now])]
             ELSE [o EXCEPT !.mgr.num = @ + 1]

\* callback(self) for one callback of metric m: the callback is handed
\* the metric and so sees the histories vals and tms and the current
\* value
Notify(cb, w, m, vals, tms, d) ==
    LET n == [w EXCEPT !.trace =
                 Append(@, <<"notify", m, cb, Len(vals[m]), Len(tms[m]),
                             IF HasValue(vals, m) THEN Value(vals, m)
                             ELSE NoValue>>)]
    IN  IF cb = "pmu" THEN ProcessMetricUpdate(n, m, vals, tms, d) ELSE n

\* Metric.__call__ notifying a callback registered twice only once
RECURSIVE MutRunCallbacks(_, _, _, _, _, _)
MutRunCallbacks(i, w, m, vals, tms, d) ==
    IF i > Len(mcbs[m]) THEN w
    ELSE MutRunCallbacks(i + 1,
                         IF \E j \in 1..(i - 1) : mcbs[m][j] = mcbs[m][i]
                         THEN w
                         ELSE Notify(mcbs[m][i], w, m, vals, tms, d),
                         m, vals, tms, d)

\* Metric.__call__: every callback of the metric, in list order
RECURSIVE RunCallbacks(_, _, _, _, _, _)
RunCallbacks(i, w, m, vals, tms, d) ==
    IF i > Len(mcbs[m]) THEN w
    ELSE RunCallbacks(i + 1, Notify(mcbs[m][i], w, m, vals, tms, d),
                      m, vals, tms, d)

\* Metric.__call__ on st = [values, times, startTime, w]
MetricCall(m, st, d) ==
    [st EXCEPT !.w = RunCallbacks(1, st.w, m, st.values, st.times, d)]

\* TimedMetric.__call__ calling the next class before appending the time
MutTimedCall(m, st, d) ==
    LET c == MetricCall(m, st, d)
    IN  [c EXCEPT
            !.times[m] = Append(@, ElapsedTime(st.startTime, m, st.w.now)),
            !.startTime[m] = StartTime(st.startTime, m, st.w.now),
            !.w.trace = Append(@, <<"time", m>>)]

\* TimedMetric.__call__: the elapsed time is appended, then the next
\* class in the method resolution order is called
TimedCall(m, st, d) ==
    LET t == [st EXCEPT
                 !.times[m] = Append(@, ElapsedTime(st.startTime, m, st.w.now)),
                 !.startTime[m] = StartTime(st.startTime, m, st.w.now),
                 !.w.trace = Append(@, <<"time", m>>)]
    IN  MetricCall(m, t, d)

\* NumericMetric.__call__ calling the next class before appending the value
MutNumericCall(m, st, v, d) ==
    LET c == IF IsTimed(m) THEN TimedCall(m, st, d) ELSE MetricCall(m, st, d)
    IN  [c EXCEPT !.values[m] = Append(@, v),
                  !.w.trace = Append(@, <<"value", m>>)]

\* NumericMetric.__call__(value): the value is appended, then the next
\* class in the method resolution order is called, which for
\* TimedNumericMetric(NumericMetric, TimedMetric) is TimedMetric
NumericCall(m, st, v, d) ==
    LET n == [st EXCEPT !.values[m] = Append(@, v),
                        !.w.trace = Append(@, <<"value", m>>)]
    IN  IF IsTimed(m) THEN TimedCall(m, n, d) ELSE MetricCall(m, n, d)

\* metric(v), dispatched on the class of the metric
Call(m, st, v, d) ==
    IF IsNumeric(m) THEN NumericCall(m, st, v, d) ELSE MetricCall(m, st, d)

\* the part of the state that callbacks change; every call starts a new
\* trace
World ==
    [now |-> now, sidx |-> sidx, files |-> files, html |-> html,
     mgr |-> mgr, obsLog |-> obsLog, trigLog |-> trigLog,
     nUpdates |-> nUpdates, events |-> events, trace |-> <<>>]

SetWorld(w) ==
    /\ now' = w.now
    /\ sidx' = w.sidx
    /\ files' = w.files
    /\ html' = w.html
    /\ mgr' = w.mgr
    /\ obsLog' = w.obsLog
    /\ trigLog' = w.trigLog
    /\ nUpdates' = w.nUpdates
    /\ events' = w.events
    /\ trace' = w.trace


\* __init__ falling back to the count policy for an unknown update_type
MutNewManager(t, f) ==
    IF t = "seconds"
    THEN [mgr |-> [state |-> "live", type |-> t, freq |-> f,
                   managing |-> FALSE, num |-> 0, last |-> now],
          scbs |-> sCallbacks, res |-> Ok]
    ELSE [mgr |-> [state |-> "live", type |-> t, freq |-> f,
                   managing |-> FALSE, num |-> 0, last |-> 0],
          scbs |-> sCallbacks, res |-> Ok]

\* SessionManager.__init__
NewManager(t, f) ==
    IF t = "seconds"
    THEN [mgr |-> [state |-> "live", type |-> t, freq |-> f,
                   managing |-> FALSE, num |-> 0, last |-> now],
          scbs |-> sCallbacks, res |-> Ok]
    ELSE IF t = "updates"
    THEN [mgr |-> [state |-> "live", type |-> t, freq |-> f,
                   managing |-> FALSE, num |-> 0, last |-> 0],
          scbs |-> sCallbacks, res |-> Ok]
    ELSE [mgr |-> [mgr EXCEPT !.state = "failed", !.type = t],
          scbs |-> sCallbacks, res |-> UnknownType]

\* for m in self._session.metrics: m.add_callback(process_metric_update)
RECURSIVE SubscribeFrom(_, _)
SubscribeFrom(i, cbs) ==
    IF i > Len(sMetrics) THEN cbs
    ELSE SubscribeFrom(i + 1,
                       [cbs EXCEPT ![sMetrics[i]] = Append(@, "pmu")])

\* manage without the check of the managing flag
MutManageOp ==
    [mgr |-> [mgr EXCEPT !.managing = TRUE],
     scbs |-> Append(sCallbacks, "mgr"),
     mcbs |-> SubscribeFrom(1, mcbs),
     res |-> Ok]

\* SessionManager.manage
ManageOp ==
    IF mgr.managing
    THEN [mgr |-> mgr, scbs |-> sCallbacks, mcbs |-> mcbs,
          res |-> AlreadyManaging]
    ELSE [mgr |-> [mgr EXCEPT !.managing = TRUE],
          scbs |-> Append(sCallbacks, "mgr"),
          mcbs |-> SubscribeFrom(1, mcbs),
          res |-> Ok]

\* for m in self._session.metrics: m.remove_callback(process_metric_update)
\* stops at the first metric that does not have the callback
RECURSIVE UnsubscribeFrom(_, _)
UnsubscribeFrom(i, cbs) ==
    IF i > Len(sMetrics) THEN [mcbs |-> cbs, res |-> Ok]
    ELSE IF InSeq("pmu", cbs[sMetrics[i]])
    THEN UnsubscribeFrom(i + 1,
                         [cbs EXCEPT ![sMetrics[i]] = RemoveFirst(@, "pmu")])
    ELSE [mcbs |-> cbs, res |-> NotInList]

\* close leaving the counting callback on the metrics
MutCloseOp_KeepMetrics ==
    IF ~mgr.managing
    THEN [mgr |-> mgr, scbs |-> sCallbacks, mcbs |-> mcbs,
          res |-> AlreadyClosed]
    ELSE IF ~InSeq("mgr", sCallbacks)
    THEN [mgr |-> mgr, scbs |-> sCallbacks, mcbs |-> mcbs,
          res |-> NotInList]
    ELSE [mgr |-> mgr, scbs |-> RemoveFirst(sCallbacks, "mgr"),
          mcbs |-> mcbs, res |-> Ok]

\* close clearing the managing flag, so that manage() may follow
MutCloseOp_Reopen ==
    IF ~mgr.managing
    THEN [mgr |-> mgr, scbs |-> sCallbacks, mcbs |-> mcbs,
          res |-> AlreadyClosed]
    ELSE IF ~InSeq("mgr", sCallbacks)
    THEN [mgr |-> mgr, scbs |-> sCallbacks, mcbs |-> mcbs,
          res |-> NotInList]
    ELSE LET u == UnsubscribeFrom(1, mcbs)
         IN  [mgr |-> [mgr EXCEPT !.managing = FALSE],
              scbs |-> RemoveFirst(sCallbacks, "mgr"),
              mcbs |-> u.mcbs, res |-> u.res]

\* SessionManager.close
CloseOp ==
    IF ~mgr.managing
    THEN [mgr |-> mgr, scbs |-> sCallbacks, mcbs |-> mcbs,
          res |-> AlreadyClosed]
    ELSE IF ~InSeq("mgr", sCallbacks)
    THEN [mgr |-> mgr, scbs |-> sCallbacks, mcbs |-> mcbs,
          res |-> NotInList]
    ELSE LET u == UnsubscribeFrom(1, mcbs)
         IN  [mgr |-> mgr, scbs |-> RemoveFirst(sCallbacks, "mgr"),
              mcbs |-> u.mcbs, res |-> u.res]

\* __exit__ closing only when the body raised nothing
MutExitOp(exc) ==
    IF exc
    THEN [mgr |-> mgr, scbs |-> sCallbacks, mcbs |-> mcbs, res |-> Ok,
          calls |-> 0]
    ELSE [mgr |-> CloseOp.mgr, scbs |-> CloseOp.scbs, mcbs |-> CloseOp.mcbs,
          res |-> CloseOp.res, calls |-> 1]

\* SessionManager.__exit__(exc_type, ...): close, whatever the body did;
\* calls is the number of close() calls made
ExitOp(exc) ==
    [mgr |-> CloseOp.mgr, scbs |-> CloseOp.scbs, mcbs |-> CloseOp.mcbs,
     res |-> CloseOp.res, calls |-> 1]

\* ------------------------------------------------- session, continued
\* on_metric_add with a manager's observer that subscribes nothing
MutOnMetricAdd(cb, s, m) ==
    IF cb = "usr" THEN [s EXCEPT !.events = Append(@, <<"add", m>>)]
    ELSE s

\* on_metric_add of one session callback: the manager's subscribes its
\* counting callback to the metric, the script's observer "usr" records
\* the event, any other observer keeps the no-op of SessionCallback
OnMetricAdd(cb, s, m) ==
    IF cb = "mgr" THEN [s EXCEPT !.mcbs[m] = Append(@, "pmu")]
    ELSE IF cb = "usr" THEN [s EXCEPT !.events = Append(@, <<"add", m>>)]
    ELSE s

RECURSIVE CallOnMetricAdd(_, _, _, _)
CallOnMetricAdd(i, scbs, s, m) ==
    IF i > Len(scbs) THEN s
    ELSE CallOnMetricAdd(i + 1, scbs, OnMetricAdd(scbs[i], s, m), m)

\* add_metric refusing only a metric object that is already in the list
MutAddMetricOp(scbs, s, m) ==
    IF InSeq(m, s.metrics)
    THEN [s EXCEPT !.res = DuplicateName]
    ELSE CallOnMetricAdd(1, scbs,
                         [s EXCEPT !.metrics = Append(@, m), !.res = Ok], m)

\* Session.add_metric on s = [metrics, mcbs, events, res]
AddMetricOp(scbs, s, m) ==
    IF \E i \in 1..Len(s.metrics) : Name(s.metrics[i]) = Name(m)
    THEN [s EXCEPT !.res = DuplicateName]
    ELSE CallOnMetricAdd(1, scbs,
                         [s EXCEPT !.metrics = Append(@, m), !.res = Ok], m)

RECURSIVE AddMetricsFrom(_, _, _, _)
AddMetricsFrom(i, ms, scbs, s) ==
    IF i > Len(ms) THEN s
    ELSE AddMetricsFrom(i + 1, ms, scbs, AddMetricOp(scbs, s, ms[i]))

\* on_session_start of one session callback: the script's observer
\* records the event and how many observers the session has by then; the
\* observer "probe" tries self.session.metrics and self.session.update()
\* and records whether the metrics could be read, how many it saw and
\* whether the update ran (each attempt in a try/except AttributeError)
OnSessionStart(cb, s, reg) ==
    IF cb = "usr" THEN [s EXCEPT !.events = Append(@, <<"start", Len(reg)>>)]
    ELSE IF cb = "probe"
    THEN [s EXCEPT !.events =
             Append(@, <<"probe", "_metrics" \in s.attrs,
                         IF "_metrics" \in s.attrs THEN Len(s.metrics) ELSE 0,
                         {"_metrics", "_update_actions"} \subseteq s.attrs>>)]
    ELSE s

\* call_callbacks(on_session_start) over the registered observers reg
RECURSIVE CallOnSessionStart(_, _, _)
CallOnSessionStart(i, reg, s) ==
    IF i > Len(reg) THEN s
    ELSE CallOnSessionStart(i + 1, reg, OnSessionStart(reg[i], s, reg))

\* the attributes of the session that exist when line n of __init__ has
\* run
SessionAttrs(n) ==
    {"output_dir", "name", "callbacks"}
        \cup (IF n >= 81 THEN {"_metrics"} ELSE {})
        \cup (IF n >= 86 THEN {"_update_actions"} ELSE {})

\* __init__ telling each observer on_session_start as it is registered,
\* and after the metrics were added
MutNewSession(scbs, ms, cbs) ==
    LET s == AddMetricsFrom(1, ms, scbs,
                 [metrics |-> <<>>, mcbs |-> cbs, events |-> <<>>,
                  res |-> Ok, attrs |-> SessionAttrs(81)])
    IN  [s EXCEPT !.events =
            @ \o [i \in 1..Count("usr", scbs) |-> <<"start", 1>>]]

\* Session.__init__(callbacks=scbs, metrics=ms): the observers are
\* registered, then told on_session_start (line 79); then _metrics is
\* assigned (81) and the metrics are added, then _update_actions (86)
NewSession(scbs, ms, cbs) ==
    LET s0 == [metrics |-> <<>>, mcbs |-> cbs, events |-> <<>>, res |-> Ok,
               attrs |-> SessionAttrs(79)]
        s1 == CallOnSessionStart(1, scbs, s0)
        s2 == AddMetricsFrom(1, ms, scbs,
                             [s1 EXCEPT !.attrs = SessionAttrs(81)])
    IN  [s2 EXCEPT !.attrs = SessionAttrs(86)]

\* Metric.__init__ testing `if initial_value:` and so dropping a 0
MutNewMetric(m, iv, cbs, t) ==
    IF iv = NoValue \/ iv = 0
    THEN [values |-> <<>>, times |-> <<>>, startTime |-> NoTime,
          callbacks |-> cbs]
    ELSE LET none == [x \in Metrics |-> NoTime]
         IN  [values |-> <<iv>>,
              times |-> IF IsTimed(m) THEN <<ElapsedTime(none, m, t)>>
                        ELSE <<>>,
              startTime |-> IF IsTimed(m) THEN StartTime(none, m, t)
                            ELSE NoTime,
              callbacks |-> cbs]

\* Metric.__init__(name, initial_value=iv, callbacks=cbs) at time t, for a
\* NumericMetric or a TimedNumericMetric; the script's callbacks do nothing
NewMetric(m, iv, cbs, t) ==
    IF iv = NoValue
    THEN [values |-> <<>>, times |-> <<>>, startTime |-> NoTime,
          callbacks |-> cbs]
    ELSE LET none == [x \in Metrics |-> NoTime]
         IN  [values |-> <<iv>>,
              times |-> IF IsTimed(m) THEN <<ElapsedTime(none, m, t)>>
                        ELSE <<>>,
              startTime |-> IF IsTimed(m) THEN StartTime(none, m, t)
                            ELSE NoTime,
              callbacks |-> cbs]


\* ------------------------------------- callbacks that call the library
\* The calls above take the callbacks of a metric and the observers of a
\* session to be passive.  Here an on_update observer of the script may
\* call back: "re" invokes the metric m0 (as long as the script's budget
\* of calls lasts), "closer" calls manager.close() the first time it is
\* told, "bad" raises.  The state a call works on is
\*   S = [values, times, startTime, hist, calls, mcbs, scbs, phase, err,
\*        depth, w]
\* where err is the exception in flight (Ok if none), depth the number of
\* Session.update() calls on the stack and w the world of the callbacks.
RECURSIVE ReRunCallbacks(_, _, _)
RECURSIVE ReNotify(_, _, _)
RECURSIVE ReProcessMetricUpdate(_, _)
RECURSIVE ReSessionUpdate(_)
RECURSIVE ReCallOnUpdate(_, _)
RECURSIVE ReOnUpdate(_, _)

\* metric(v) for a NumericMetric or TimedNumericMetric: value, time, then
\* the callbacks
ReCall(S, m, v) ==
    LET a == [S EXCEPT !.values[m] = Append(@, v),
                       !.hist[m] = Append(@, v),
                       !.calls = @ + 1,
                       !.w.trace = Append(@, <<"value", m>>)]
        b == IF IsTimed(m)
             THEN [a EXCEPT
                      !.times[m] = Append(@, ElapsedTime(a.startTime, m,
                                                         a.w.now)),
                      !.startTime[m] = StartTime(a.startTime, m, a.w.now),
                      !.w.trace = Append(@, <<"time", m>>)]
             ELSE a
    IN  ReRunCallbacks(1, b, m)

\* Metric.__call__: `for callback in self._callbacks` steps an index
\* through the list as it is at each step, so entries that move after a
\* removal are passed over; an exception ends the loop
ReRunCallbacks(i, S, m) ==
    IF S.err # Ok \/ i > Len(S.mcbs[m]) THEN S
    ELSE ReRunCallbacks(i + 1, ReNotify(S.mcbs[m][i], S, m), m)

\* callback(self) for one callback of metric m
ReNotify(cb, S, m) ==
    LET n == [S EXCEPT !.w.trace =
                 Append(@, <<"notify", m, cb, Len(S.values[m]),
                             Len(S.times[m]), Value(S.values, m)>>)]
    IN  IF cb = "pmu" THEN ReProcessMetricUpdate(n, m) ELSE n

\* process_metric_update setting the counter back before it updates the
\* session
MutReProcessMetricUpdate(S, m) ==
    LET o == [S EXCEPT !.w.obsLog = Append(@, <<m, Len(S.values[m])>>)]
    IN  IF o.w.mgr.type = "seconds"
        THEN IF o.w.now - o.w.mgr.last >= o.w.mgr.freq
             THEN LET u == ReSessionUpdate(o)
                  IN  IF u.err # Ok THEN u
                      ELSE [u EXCEPT !.w.mgr.last = u.w.now,
                                     !.w.trigLog =
                                         Append(@, [start |-> o.w.now,
                                                    finish |-> u.w.now])]
             ELSE o
        ELSE IF o.w.mgr.num + 1 >= o.w.mgr.freq
             THEN LET u == ReSessionUpdate([o EXCEPT !.w.mgr.num = 0])
                  IN  IF u.err # Ok THEN u
                      ELSE [u EXCEPT !.w.trigLog =
                                         Append(@, [start |-> o.w.now,
                                                    finish |-> u.w.now])]
             ELSE [o EXCEPT !.w.mgr.num = @ + 1]

\* SessionManager.process_metric_update: the counter (the timestamp) is
\* written when session.update() has returned, and not at all when it
\* raised
ReProcessMetricUpdate(S, m) ==
    LET o == [S EXCEPT !.w.obsLog = Append(@, <<m, Len(S.values[m])>>)]
    IN  IF o.w.mgr.type = "seconds"
        THEN IF o.w.now - o.w.mgr.last >= o.w.mgr.freq
             THEN LET u == ReSessionUpdate(o)
                  IN  IF u.err # Ok THEN u
                      ELSE [u EXCEPT !.w.mgr.last = u.w.now,
                                     !.w.trigLog =
                                         Append(@, [start |-> o.w.now,
                                                    finish |-> u.w.now])]
             ELSE o
        ELSE IF o.w.mgr.num + 1 >= o.w.mgr.freq
             THEN LET u == ReSessionUpdate(o)
                  IN  IF u.err # Ok THEN u
                      ELSE [u EXCEPT !.w.mgr.num = 0,
                                     !.w.trigLog =
                                         Append(@, [start |-> o.w.now,
                                                    finish |-> u.w.now])]
             ELSE [o EXCEPT !.w.mgr.num = @ + 1]

\* Session.update: plot, serialize, then on_update to the observers; the
\* trace tells how many updates are on the stack when this one begins
ReSessionUpdate(S) ==
    LET b == [S EXCEPT !.depth = @ + 1,
                       !.w.trace = Append(@, <<"update_begin", S.depth + 1>>)]
        w1 == IF plotMetrics THEN SessionPlot(b.w, b.values, b.times)
              ELSE b.w
        w2 == IF serializeMetrics THEN SessionSerialize(w1, b.values, b.times)
              ELSE w1
        c == ReCallOnUpdate(1, [b EXCEPT !.w = [w2 EXCEPT !.nUpdates = @ + 1]])
    IN  IF c.err # Ok THEN c
        ELSE [c EXCEPT !.depth = @ - 1,
                       !.w.trace = Append(@, <<"update_end", S.depth + 1>>)]

\* Session.call_callbacks(on_update): an index stepped through the list
\* of observers as it is at each step
ReCallOnUpdate(i, S) ==
    IF S.err # Ok \/ i > Len(S.scbs) THEN S
    ELSE ReCallOnUpdate(i + 1, ReOnUpdate(S.scbs[i], S))

\* SessionManager.close called on S
ReClose(S) ==
    LET c == [S EXCEPT !.w.trace = Append(@, <<"close">>)]
    IN  IF ~c.w.mgr.managing THEN [c EXCEPT !.err = AlreadyClosed]
        ELSE IF ~InSeq("mgr", c.scbs) THEN [c EXCEPT !.err = NotInList]
        ELSE LET u == UnsubscribeFrom(1, c.mcbs)
             IN  [c EXCEPT !.scbs = RemoveFirst(@, "mgr"),
                           !.mcbs = u.mcbs,
                           !.err = u.res,
                           !.phase = IF u.res = Ok THEN "closed" ELSE @]

\* on_update of one observer
ReOnUpdate(cb, S) ==
    LET t == [S EXCEPT !.w.trace = Append(@, <<"on_update", cb>>)]
    IN  IF cb = "usr" THEN [t EXCEPT !.w.events = Append(@, <<"update">>)]
        ELSE IF cb = "re"
        THEN IF t.calls < MaxCalls THEN ReCall(t, "m0", t.calls) ELSE t
        ELSE IF cb = "closer"
        THEN IF t.phase = "managing" THEN ReClose(t) ELSE t
        ELSE IF cb = "bad" THEN [t EXCEPT !.err = ObserverError]
        ELSE t

\* the state a call of the script starts from
ReState ==
    [values |-> values, times |-> times, startTime |-> startTime,
     hist |-> hist, calls |-> calls, mcbs |-> mcbs, scbs |-> sCallbacks,
     phase |-> phase, err |-> Ok, depth |-> 0, w |-> World]

\* the state a call of the script leaves
SetRe(S) ==
    /\ values' = S.values
    /\ times' = S.times
    /\ startTime' = S.startTime
    /\ hist' = S.hist
    /\ calls' = S.calls
    /\ mcbs' = S.mcbs
    /\ sCallbacks' = S.scbs
    /\ phase' = S.phase
    /\ result' = S.err
    /\ closeCalls' = Count(<<"close">>, S.w.trace)
    /\ SetWorld(S.w)

\* ---------------------------------------------------------------- Init
NoManager ==
    [state |-> "absent", type |-> "none", freq |-> 0, managing |-> FALSE,
     num |-> 0, last |-> 0]

\* The metrics and then the session have been constructed:
\*   metric m = (Timed)NumericMetric(Name(m), ivs[m], callbacks=cbs[m])
\*   Session(dir, metrics=ms, callbacks=scbs, plot_metrics=p,
\*           serialize_metrics=z)
InitOf(ivs, cbs, ms, scbs, p, z) ==
    /\ now = 1
    /\ LET new == [m \in Metrics |-> NewMetric(m, ivs[m], cbs[m], now)]
           ses == NewSession(scbs, ms, [m \in Metrics |-> new[m].callbacks])
       IN  /\ values = [m \in Metrics |-> new[m].values]
           /\ times = [m \in Metrics |-> new[m].times]
           /\ startTime = [m \in Metrics |-> new[m].startTime]
           /\ mcbs = ses.mcbs
           /\ sMetrics = ses.metrics
           /\ events = ses.events
    /\ sCallbacks = scbs
    /\ hist = [m \in Metrics |-> IF ivs[m] = NoValue THEN <<>> ELSE <<ivs[m]>>]
    /\ sidx = [m \in Metrics |-> 0]
    /\ files = [n \in Names |-> <<>>]
    /\ html = <<>>
    /\ plotMetrics = p
    /\ serializeMetrics = z
    /\ mgr = NoManager
    /\ inWith = FALSE
    /\ lastOp = "init"
    /\ result = Ok
    /\ calls = 0
    /\ obsLog = <<>>
    /\ trigLog = <<>>
    /\ nUpdates = 0
    /\ nDirect = 0
    /\ phase = "idle"
    /\ closeCalls = 0
    /\ builtAt = 0
    /\ trace = <<>>
    /\ nFlush = 0

\* ------------------------------------------------------------- actions
metricVars == <<values, times, startTime, hist, calls>>
worldVars == <<now, sidx, files, html, mgr, obsLog, trigLog, nUpdates,
               events>>
\* a call that runs no callback of a metric and no update action
NoTrace == trace' = <<>> /\ UNCHANGED nFlush
sessionVars == <<sMetrics, sCallbacks, plotMetrics, serializeMetrics>>
managerHist == <<inWith, phase, builtAt>>

\* the step is the call op, which is no method of the manager
Calls(op) == lastOp' = op /\ closeCalls' = 0

\* metric(v): NumericMetric.__call__ (and TimedMetric.__call__ for a timed
\* metric), then Metric.__call__ runs the callbacks
Invoke(m, v, d) ==
    /\ calls < MaxCalls
    /\ now + d <= MaxTime
    /\ LET st == Call(m, [values |-> values, times |-> times,
                          startTime |-> startTime, w |-> World], v, d)
       IN  /\ values' = st.values
           /\ times' = st.times
           /\ startTime' = st.startTime
           /\ SetWorld(st.w)
    /\ hist' = [hist EXCEPT ![m] = Append(@, v)]
    /\ calls' = calls + 1
    /\ result' = Ok
    /\ Calls("invoke")
    /\ UNCHANGED <<mcbs, sessionVars, managerHist, nDirect, nFlush>>

\* a shorthand that takes 0 for the value of a metric never invoked
MutCompound_Default(m, op, k) ==
    /\ calls < MaxCalls
    /\ IsNumeric(m)
    /\ LET w0 == [World EXCEPT !.trace = <<<<"iop", m, op, k>>>>]
           st0 == [values |-> values, times |-> times,
                   startTime |-> startTime, w |-> w0]
           r == Apply(op, IF HasValue(values, m) THEN Value(values, m) ELSE 0,
                      k)
           st == IF r.res = Ok THEN NumericCall(m, st0, r.val, 0) ELSE st0
       IN  /\ values' = st.values
           /\ times' = st.times
           /\ startTime' = st.startTime
           /\ SetWorld(st.w)
           /\ result' = r.res
           /\ hist' = IF r.res = Ok THEN [hist EXCEPT ![m] = Append(@, r.val)]
                      ELSE hist
    /\ calls' = calls + 1
    /\ Calls("compound")
    /\ UNCHANGED <<mcbs, sessionVars, managerHist, nDirect, nFlush>>

\* a shorthand that overwrites the current value and then notifies
MutCompound_InPlace(m, op, k) ==
    /\ calls < MaxCalls
    /\ IsNumeric(m)
    /\ LET w0 == [World EXCEPT !.trace = <<<<"iop", m, op, k>>>>]
           r == IF HasValue(values, m) THEN Apply(op, Value(values, m), k)
                ELSE [res |-> Uninitialized, val |-> 0]
           st0 == [values |-> IF r.res = Ok
                              THEN [values EXCEPT
                                       ![m][Len(values[m])] = r.val]
                              ELSE values,
                   times |-> times, startTime |-> startTime, w |-> w0]
           st == IF r.res = Ok THEN MetricCall(m, st0, 0) ELSE st0
       IN  /\ values' = st.values
           /\ times' = st.times
           /\ startTime' = st.startTime
           /\ SetWorld(st.w)
           /\ result' = r.res
           /\ hist' = IF r.res = Ok THEN [hist EXCEPT ![m] = Append(@, r.val)]
                      ELSE hist
    /\ calls' = calls + 1
    /\ Calls("compound")
    /\ UNCHANGED <<mcbs, sessionVars, managerHist, nDirect, nFlush>>

\* metric <op>= k: self(self.value <op> k); reading the value of a metric
\* never invoked, or the operation itself, may raise before the call
Compound(m, op, k) ==
    /\ calls < MaxCalls
    /\ IsNumeric(m)
    /\ LET w0 == [World EXCEPT !.trace = <<<<"iop", m, op, k>>>>]
           st0 == [values |-> values, times |-> times,
                   startTime |-> startTime, w |-> w0]
           r == IF HasValue(values, m) THEN Apply(op, Value(values, m), k)
                ELSE [res |-> Uninitialized, val |-> 0]
           st == IF r.res = Ok THEN NumericCall(m, st0, r.val, 0) ELSE st0
       IN  /\ values' = st.values
           /\ times' = st.times
           /\ startTime' = st.startTime
           /\ SetWorld(st.w)
           /\ result' = r.res
           /\ hist' = IF r.res = Ok THEN [hist EXCEPT ![m] = Append(@, r.val)]
                      ELSE hist
    /\ calls' = calls + 1
    /\ Calls("compound")
    /\ UNCHANGED <<mcbs, sessionVars, managerHist, nDirect, nFlush>>

\* metric.value read by the script
ReadValue(m) ==
    /\ IsNumeric(m)
    /\ result' = IF HasValue(values, m) THEN Ok ELSE Uninitialized
    /\ trace' = <<<<"read", m>>>>
    /\ Calls("read")
    /\ UNCHANGED <<metricVars, worldVars, mcbs, sessionVars, managerHist,
                   nDirect, nFlush>>

\* metric.serialize(file) called by the script, file being the one the
\* session uses for the metric
Serialize(m) ==
    /\ nFlush < MaxFlush
    /\ IsSerializable(m)
    /\ SetWorld(MetricSerialize(m, [World EXCEPT
                                       !.trace = <<<<"flush", m>>>>],
                                values, times))
    /\ nFlush' = nFlush + 1
    /\ result' = Ok
    /\ Calls("serialize")
    /\ UNCHANGED <<metricVars, mcbs, sessionVars, managerHist, nDirect>>

\* time passes
Tick ==
    /\ now < MaxTime
    /\ now' = now + 1
    /\ result' = Ok
    /\ Calls("sleep")
    /\ NoTrace
    /\ UNCHANGED <<metricVars, sidx, files, html, mgr, obsLog, trigLog,
                   nUpdates, events, mcbs, sessionVars, managerHist, nDirect>>

\* session.update() called by the script
Update(d) ==
    /\ nDirect < MaxDirect
    /\ now + d <= MaxTime
    /\ SetWorld(SessionUpdate(World, values, times, d))
    /\ nDirect' = nDirect + 1
    /\ result' = Ok
    /\ Calls("update")
    /\ UNCHANGED <<metricVars, mcbs, sessionVars, managerHist, nFlush>>

\* session.add_metric(m)
AddMetric(m) ==
    /\ LET s == AddMetricOp(sCallbacks,
                            [metrics |-> sMetrics, mcbs |-> mcbs,
                             events |-> events, res |-> Ok], m)
       IN  /\ sMetrics' = s.metrics
           /\ mcbs' = s.mcbs
           /\ events' = s.events
           /\ result' = s.res
    /\ Calls("add_metric")
    /\ trace' = <<<<"add", m>>>>
    /\ UNCHANGED nFlush
    /\ UNCHANGED <<metricVars, now, sidx, files, html, mgr, obsLog, trigLog,
                   nUpdates, sCallbacks, plotMetrics, serializeMetrics,
                   managerHist, nDirect>>

RECURSIVE SumCbs(_)
SumCbs(S) ==
    IF S = {} THEN 0
    ELSE LET m == CHOOSE x \in S : TRUE
         IN  Count("cb", mcbs[m]) + SumCbs(S \ {m})

NumCbs == SumCbs(Metrics)

\* metric.add_callback(cb) with a callback of the script
AddCallback(m) ==
    /\ NumCbs < MaxCbs
    /\ mcbs' = [mcbs EXCEPT ![m] = Append(@, "cb")]
    /\ result' = Ok
    /\ Calls("add_callback")
    /\ trace' = <<<<"add_callback", m>>>>
    /\ UNCHANGED nFlush
    /\ UNCHANGED <<metricVars, worldVars, sessionVars, managerHist, nDirect>>

\* metric.remove_callback(cb) with a callback of the script
RemoveCallback(m) ==
    /\ IF InSeq("cb", mcbs[m])
       THEN mcbs' = [mcbs EXCEPT ![m] = RemoveFirst(@, "cb")] /\ result' = Ok
       ELSE mcbs' = mcbs /\ result' = NotInList
    /\ Calls("remove_callback")
    /\ trace' = <<<<"remove_callback", m>>>>
    /\ UNCHANGED nFlush
    /\ UNCHANGED <<metricVars, worldVars, sessionVars, managerHist, nDirect>>

\* the observers of the session that the script registered
NumObs == Len(SelectSeq(sCallbacks, LAMBDA cb : cb # "mgr"))

\* session.add_callback(cb) with an observer of the script
AddObserver(cb) ==
    /\ NumObs < MaxCbs
    /\ sCallbacks' = Append(sCallbacks, cb)
    /\ result' = Ok
    /\ Calls("add_observer")
    /\ trace' = <<<<"add_observer", cb>>>>
    /\ UNCHANGED <<metricVars, worldVars, mcbs, sMetrics, plotMetrics,
                   serializeMetrics, managerHist, nDirect, nFlush>>

\* session.remove_callback(cb) with an observer of the script
RemoveObserver(cb) ==
    /\ IF InSeq(cb, sCallbacks)
       THEN sCallbacks' = RemoveFirst(sCallbacks, cb) /\ result' = Ok
       ELSE sCallbacks' = sCallbacks /\ result' = NotInList
    /\ Calls("remove_observer")
    /\ trace' = <<<<"remove_observer", cb>>>>
    /\ UNCHANGED <<metricVars, worldVars, mcbs, sMetrics, plotMetrics,
                   serializeMetrics, managerHist, nDirect, nFlush>>

\* metric(v) with observers that may call back
ReInvoke(m) ==
    /\ calls < MaxCalls
    /\ SetRe(ReCall(ReState, m, calls))
    /\ lastOp' = "invoke"
    /\ UNCHANGED <<sMetrics, plotMetrics, serializeMetrics, inWith, builtAt,
                   nDirect, nFlush>>

\* session.update() called by the script, with observers that may call
\* back
ReUpdate ==
    /\ nDirect < MaxDirect
    /\ SetRe(ReSessionUpdate(ReState))
    /\ nDirect' = nDirect + 1
    /\ lastOp' = "update"
    /\ UNCHANGED <<sMetrics, plotMetrics, serializeMetrics, inWith, builtAt,
                   nFlush>>

\* manager = SessionManager(session, update_type=t, update_freq=f)
Construct(t, f) ==
    /\ mgr.state = "absent"
    /\ LET n == NewManager(t, f)
       IN  /\ mgr' = n.mgr
           /\ sCallbacks' = n.scbs
           /\ result' = n.res
    /\ builtAt' = now
    /\ lastOp' = "construct"
    /\ closeCalls' = 0
    /\ NoTrace
    /\ UNCHANGED <<metricVars, now, sidx, files, html, obsLog, trigLog,
                   nUpdates, events, mcbs, sMetrics, plotMetrics,
                   serializeMetrics, inWith, phase, nDirect>>

\* manager.manage()
Manage ==
    /\ mgr.state = "live"
    /\ LET r == ManageOp
       IN  /\ mgr' = r.mgr
           /\ sCallbacks' = r.scbs
           /\ mcbs' = r.mcbs
           /\ result' = r.res
           /\ phase' = IF r.res = Ok THEN "managing" ELSE phase
    /\ lastOp' = "manage"
    /\ closeCalls' = 0
    /\ NoTrace
    /\ UNCHANGED <<metricVars, now, sidx, files, html, obsLog, trigLog,
                   nUpdates, events, sMetrics, plotMetrics, serializeMetrics,
                   inWith, builtAt, nDirect>>

\* manager.close()
Close ==
    /\ mgr.state = "live"
    /\ LET r == CloseOp
       IN  /\ mgr' = r.mgr
           /\ sCallbacks' = r.scbs
           /\ mcbs' = r.mcbs
           /\ result' = r.res
           /\ phase' = IF r.res = Ok THEN "closed" ELSE phase
    /\ lastOp' = "close"
    /\ closeCalls' = 1
    /\ NoTrace
    /\ UNCHANGED <<metricVars, now, sidx, files, html, obsLog, trigLog,
                   nUpdates, events, sMetrics, plotMetrics, serializeMetrics,
                   inWith, builtAt, nDirect>>

\* `with manager.manage():` is entered: manage(), then __enter__
WithEnter ==
    /\ mgr.state = "live"
    /\ ~inWith
    /\ LET r == ManageOp
       IN  /\ mgr' = r.mgr
           /\ sCallbacks' = r.scbs
           /\ mcbs' = r.mcbs
           /\ result' = IF r.res # Ok THEN r.res
                        ELSE IF ~r.mgr.managing THEN NotManaged ELSE Ok
           /\ phase' = IF r.res = Ok THEN "managing" ELSE phase
           /\ inWith' = (r.res = Ok /\ r.mgr.managing)
    /\ lastOp' = "with_enter"
    /\ closeCalls' = 0
    /\ NoTrace
    /\ UNCHANGED <<metricVars, now, sidx, files, html, obsLog, trigLog,
                   nUpdates, events, sMetrics, plotMetrics, serializeMetrics,
                   builtAt, nDirect>>

\* the body of the with statement is left, normally or (exc) by an
\* exception: __exit__ runs
WithExit(exc) ==
    /\ inWith
    /\ LET r == ExitOp(exc)
       IN  /\ mgr' = r.mgr
           /\ sCallbacks' = r.scbs
           /\ mcbs' = r.mcbs
           /\ result' = IF r.res # Ok THEN r.res
                        ELSE IF exc THEN BodyError ELSE Ok
           /\ phase' = IF r.calls > 0 /\ r.res = Ok THEN "closed" ELSE phase
           /\ closeCalls' = r.calls
    /\ inWith' = FALSE
    /\ lastOp' = "with_exit"
    /\ NoTrace
    /\ UNCHANGED <<metricVars, now, sidx, files, html, obsLog, trigLog,
                   nUpdates, events, sMetrics, plotMetrics, serializeMetrics,
                   builtAt, nDirect>>

\* ------------------------------------------------------ specifications
NoValues == [m \in Metrics |-> NoValue]
NoCallbacks == [m \in Metrics |-> <<>>]

\* The manager under the count policy, and its session.  m0 was
\* constructed with a callback of the script; the session uses the default
\* update actions; the script reports the running number of the call as
\* the value.  The clock is not read by this policy and stands still.
InitMgr ==
    InitOf(NoValues, [NoCallbacks EXCEPT !["m0"] = <<"cb">>], <<"m0">>, <<>>,
           TRUE, TRUE)

NextMgr ==
    \/ \E m \in {"m0", "m1"} : Invoke(m, calls, 0)
    \/ Update(0)
    \/ \E m \in {"m1", "m2"} : AddMetric(m)
    \/ \E t \in {"updates", "bogus"}, f \in 1..MaxFreq : Construct(t, f)
    \/ Manage
    \/ Close
    \/ WithEnter
    \/ \E exc \in BOOLEAN : WithExit(exc)

SpecMgr == InitMgr /\ [][NextMgr]_vars

\* The manager under the elapsed-time policy: the clock ticks, and a
\* session update takes no time or one tick.
InitTime ==
    InitOf(NoValues, [NoCallbacks EXCEPT !["m0"] = <<"cb">>], <<"m0">>, <<>>,
           TRUE, TRUE)

NextTime ==
    \/ \E m \in {"m0", "m1"}, d \in 0..1 : Invoke(m, calls, d)
    \/ Tick
    \/ \E m \in {"m1"} : AddMetric(m)
    \/ \E t \in {"seconds", "bogus"}, f \in 1..MaxFreq : Construct(t, f)
    \/ Manage
    \/ Close

SpecTime == InitTime /\ [][NextTime]_vars


\* Numeric metrics on their own: initial values, arbitrary values, the
\* script's callbacks, and a session the script updates itself.
InitMetric ==
    \E ivs \in [Metrics -> {NoValue, 0}] :
        /\ ivs["m2"] = NoValue
        /\ ivs["m3"] = NoValue
        /\ InitOf(ivs, NoCallbacks, <<"m0", "m1">>, <<>>, TRUE, TRUE)

NextMetric ==
    \/ \E m \in {"m0", "m1"}, v \in Vals : Invoke(m, v, 0)
    \/ Update(0)
    \/ \E m \in {"m0"} : AddCallback(m)
    \/ \E m \in {"m0"} : RemoveCallback(m)

SpecMetric == InitMetric /\ [][NextMetric]_vars

\* The compound-update shorthands: m0 has a callback of the script, both
\* metrics are in a session that a manager may come to manage.
KVals == {0, 1, 2}

InitOps ==
    InitOf(NoValues, [NoCallbacks EXCEPT !["m0"] = <<"cb">>], <<"m0", "m1">>,
           <<>>, TRUE, TRUE)

NextOps ==
    \/ \E m \in {"m0", "m1"} : Invoke(m, 1, 0)
    \/ \E op \in Ops, k \in KVals : Compound("m0", op, k)
    \/ \E op \in {"add", "mod"}, k \in KVals : Compound("m1", op, k)
    \/ \E m \in {"m0", "m1"} : ReadValue(m)
    \/ Construct("updates", 1)
    \/ Manage

SpecOps == InitOps /\ [][NextOps]_vars

\* Flushing: a numeric and a timed metric of one session, flushed by the
\* script directly or through Session.update(), while time passes.
InitFlush == InitOf(NoValues, NoCallbacks, <<"m0", "m1">>, <<>>, TRUE, TRUE)

NextFlush ==
    \/ \E m \in {"m0", "m1"} : Invoke(m, calls, 0)
    \/ \E m \in {"m0", "m1"} : Serialize(m)
    \/ Update(0)
    \/ Tick

SpecFlush == InitFlush /\ [][NextFlush]_vars

\* The session and its observers: the script's observer "usr" and a
\* second one are supplied at construction, together with the plain
\* Metric m3 and the timed metric m1, under every choice of update
\* actions; m0 and m2, which share a name, are added later.
InitObs ==
    \E p \in BOOLEAN, z \in BOOLEAN :
        InitOf(NoValues, NoCallbacks, <<"m3", "m1">>, <<"usr", "aux">>, p, z)

NextObs ==
    \/ \E m \in {"m1", "m3"} : Invoke(m, calls, 0)
    \/ Update(0)
    \/ \E m \in {"m0", "m2"} : AddMetric(m)
    \/ Construct("updates", 1)
    \/ Manage

SpecObs == InitObs /\ [][NextObs]_vars

\* Callbacks and observers coming and going: the script registers its
\* callback on m0 and its observer on the session, more than once, before
\* or after the manager registers its own, and removes them again.
InitNotify == InitOf(NoValues, NoCallbacks, <<"m0">>, <<>>, TRUE, TRUE)

NextNotify ==
    \/ Invoke("m0", calls, 0)
    \/ AddCallback("m0")
    \/ RemoveCallback("m0")
    \/ AddObserver("usr")
    \/ RemoveObserver("usr")
    \/ Construct("updates", 1)
    \/ Manage

SpecNotify == InitNotify /\ [][NextNotify]_vars

\* The script updates the session itself while a manager of either policy
\* throttles: session.update() between the metric updates, taking no time
\* or one tick.
InitDirect == InitOf(NoValues, NoCallbacks, <<"m0">>, <<>>, TRUE, TRUE)

NextDirect ==
    \/ Invoke("m0", calls, 0)
    \/ Tick
    \/ \E d \in 0..1 : Update(d)
    \/ \E t \in {"seconds", "updates"}, f \in 1..MaxFreq : Construct(t, f)
    \/ Manage

SpecDirect == InitDirect /\ [][NextDirect]_vars

\* A session constructed with an observer that looks at its session when
\* it is told on_session_start, with no, one or two metrics.
InitStart ==
    \E ms \in {<<>>, <<"m0">>, <<"m0", "m1">>}, p \in BOOLEAN, z \in BOOLEAN :
        InitOf(NoValues, NoCallbacks, ms, <<"usr", "probe">>, p, z)

NextStart ==
    \/ \E m \in {"m0", "m1"} : Invoke(m, calls, 0)
    \/ Update(0)
    \/ \E m \in {"m0", "m1"} : AddMetric(m)

SpecStart == InitStart /\ [][NextStart]_vars

\* A managed session with one observer of the script that calls back
\* from on_update: it invokes m0, or closes the manager, or raises (and
\* may be removed again).  The script's callback on m0 is registered
\* before or after the manager's.
InitRe ==
    \E cb \in {"re", "closer", "bad"} :
        InitOf(NoValues, NoCallbacks, <<"m0">>, <<cb>>, TRUE, TRUE)

NextRe ==
    \/ ReInvoke("m0")
    \/ ReUpdate
    \/ AddCallback("m0")
    \/ RemoveObserver("bad")
    \/ \E f \in 1..MaxFreq : Construct("updates", f)
    \/ Manage

SpecRe == InitRe /\ [][NextRe]_vars

\* ---------------------------------------------------------- properties
\* everything but the record of the last call
stateVars ==
    <<now, values, times, startTime, sidx, mcbs, files, html, sMetrics,
      sCallbacks, plotMetrics, serializeMetrics, mgr, inWith, calls, hist,
      obsLog, trigLog, nUpdates, nDirect, phase, builtAt, events, nFlush>>

\* what Session.update() writes
outputs == <<files, html, nUpdates>>

Headers == {"value", "time,value"}
IsDataLine(l) == l \notin Headers
DataLines(n) == SelectSeq(files[n], IsDataLine)

\* the line of entry k of the history of metric m
LineOf(m, k) ==
    IF IsTimed(m)
    THEN ToString(times[m][k]) \o "," \o ToString(values[m][k])
    ELSE ToString(values[m][k])

\* entry k of the history of m is in the file of m
Flushed(m, k) ==
    /\ k <= Len(DataLines(Name(m)))
    /\ DataLines(Name(m))[k] = LineOf(m, k)

InSession(m) == InSeq(m, sMetrics)

\* the manager observes nothing: no counting callback on any metric, no
\* session-level observer
NoSubscription ==
    /\ \A m \in Metrics : ~InSeq("pmu", mcbs[m])
    /\ ~InSeq("mgr", sCallbacks)

\* C1: under the count policy with threshold f >= 1 the manager triggers
\* Session.update() exactly on every f-th observed metric update, all
\* metrics of the session counted together: after N observed updates
\* there were N div f triggered updates, every observed value but the
\* last N mod f is in its metric's file (the triggering value included),
\* and, the script not having updated the session itself, the last
\* N mod f values are not.
C1_CountState ==
    (mgr.state = "live" /\ mgr.type = "updates" /\ mgr.freq >= 1) =>
        LET N == Len(obsLog)
            r == Len(obsLog) % mgr.freq
        IN  /\ Len(trigLog) = N \div mgr.freq
            /\ \A i \in 1..(N - r) : Flushed(obsLog[i][1], obsLog[i][2])
            /\ nDirect = 0 =>
                   \A i \in (N - r + 1)..N :
                       ~Flushed(obsLog[i][1], obsLog[i][2])

C1_CountStep ==
    (mgr.type = "updates" /\ phase = "managing" /\ lastOp' = "invoke") =>
        \A m \in Metrics :
            (values'[m] # values[m] /\ InSession(m)) =>
                /\ Len(obsLog') = Len(obsLog) + 1
                /\ Last(obsLog') = <<m, Len(values'[m])>>
                /\ IF Len(obsLog') % mgr.freq = 0
                   THEN /\ Len(trigLog') = Len(trigLog) + 1
                        /\ nUpdates' = nUpdates + 1
                        /\ Flushed(m, Len(values[m]))'
                   ELSE /\ trigLog' = trigLog
                        /\ UNCHANGED outputs

C1_CountPolicy == [](C1_CountState) /\ [][C1_CountStep]_vars

\* three updates of two metrics observed with threshold 2: one triggered
\* update, one value pending
C1_Witness ==
    /\ mgr.type = "updates" /\ mgr.freq = 2 /\ nDirect = 0
    /\ Len(obsLog) = 3 /\ Len(trigLog) = 1
    /\ \E i, j \in 1..3 : obsLog[i][1] # obsLog[j][1]
    /\ ~Flushed(obsLog[3][1], obsLog[3][2])

\* C2: after close() has returned, no invocation of a metric triggers
\* Session.update() through the manager: the number of session updates
\* and the output are what they were before the invocation.
C2_NoUpdateAfterClose ==
    [][(phase = "closed" /\ lastOp' = "invoke") =>
           (UNCHANGED outputs /\ trigLog' = trigLog
            /\ obsLog' = obsLog)]_vars

\* a metric of the session is invoked after close() of a manager that
\* updated the session on every metric update
C2_Witness ==
    /\ phase = "closed" /\ lastOp = "invoke"
    /\ mgr.type = "updates" /\ mgr.freq = 1 /\ trigLog # <<>>
    /\ \E m \in Metrics : InSession(m) /\ Len(values[m]) > sidx[m]

\* C3: leaving `with manager.manage():` calls close() exactly once, when
\* the body finishes normally and when it raises; afterwards the manager
\* observes nothing and metric invocations trigger no Session.update().
C3_ScopeExit ==
    /\ [][(inWith /\ ~inWith') =>
              (closeCalls' = 1 /\ NoSubscription' /\ phase' = "closed")]_vars
    /\ [][(lastOp = "with_exit" /\ lastOp' = "invoke") =>
              (UNCHANGED outputs /\ trigLog' = trigLog)]_vars

\* the body raised after the manager had updated the session, and a metric
\* of the session is invoked after the scope was left
C3_Witness ==
    /\ lastOp = "with_exit" /\ result = BodyError /\ closeCalls = 1
    /\ trigLog # <<>> /\ mgr.freq = 1
    /\ \E m \in Metrics : InSession(m) /\ values[m] # <<>>

\* C4: manage() on a manager that is managing fails with the
\* invalid-state error and changes nothing: the session's observer list
\* and every metric's callback list stay as they were.
C4_ManageWhileManaging ==
    [][(phase = "managing" /\ lastOp' \in {"manage", "with_enter"}) =>
           (result' = AlreadyManaging /\ UNCHANGED stateVars)]_vars

C4_Witness ==
    /\ phase = "managing" /\ lastOp = "manage" /\ result = AlreadyManaging
    /\ sMetrics # <<>>

\* C5: close() raises RuntimeError "SessionManager is already closed"
\* whenever the manager is not managing the session (manage() never
\* called, or close() already called), and changes nothing.
C5_CloseNotManaging ==
    [][(phase # "managing" /\ lastOp' = "close") =>
           (result' = AlreadyClosed /\ UNCHANGED stateVars)]_vars

\* C6: a manager is single-use: after manage() and close() a further
\* manage() fails and subscribes nothing, and the closed manager never
\* triggers Session.update() again.
C6_SingleUse ==
    /\ [](phase = "closed" => NoSubscription)
    /\ [][(phase = "closed" /\ lastOp' \in {"manage", "with_enter"}) =>
              (result' # Ok /\ UNCHANGED <<sCallbacks, mcbs>>)]_vars
    /\ [][phase = "closed" =>
              (phase' = "closed" /\ trigLog' = trigLog)]_vars

C6_Witness ==
    /\ phase = "closed" /\ lastOp = "manage" /\ result # Ok
    /\ sMetrics # <<>> /\ trigLog # <<>>

\* C7: between manage() and close() every metric of the session, present
\* at manage() or added later, has the counting callback subscribed
\* exactly once and the session-level observer is registered once, and an
\* update of any of them advances the one counter; after close() no
\* metric has the counting callback and the observer is gone, also for
\* metrics added after close().
C7_State ==
    /\ phase = "managing" =>
           /\ \A m \in Metrics :
                  Count("pmu", mcbs[m]) = IF InSession(m) THEN 1 ELSE 0
           /\ Count("mgr", sCallbacks) = 1
    /\ phase = "closed" => NoSubscription

C7_Step ==
    (phase = "managing" /\ mgr.type = "updates" /\ lastOp' = "invoke") =>
        \A m \in Metrics :
            (values'[m] # values[m] /\ InSession(m)) =>
                mgr'.num = (mgr.num + 1) % mgr.freq

C7_Subscriptions == [](C7_State) /\ [][C7_Step]_vars

\* a metric added while managing was observed, and another metric was
\* added after close()
C7_Witness ==
    /\ phase = "closed" /\ lastOp = "add_metric" /\ result = Ok
    /\ Len(sMetrics) = 2
    /\ \E i \in 1..Len(obsLog) : obsLog[i][1] = sMetrics[1]

\* C8: constructing a manager with an update_type other than 'seconds' or
\* 'updates' fails with the configuration error, and no observer is
\* attached to the session nor a callback to a metric.
C8_State ==
    /\ mgr.state # "absent" =>
           (mgr.state = "failed" <=> mgr.type \notin {"seconds", "updates"})
    /\ mgr.state = "failed" => NoSubscription

C8_Step ==
    lastOp' = "construct" =>
        /\ (result' = UnknownType) <=> (mgr'.state = "failed")
        /\ UNCHANGED <<sCallbacks, mcbs, sMetrics>>

C8_BogusType == [](C8_State) /\ [][C8_Step]_vars

C8_Witness ==
    /\ mgr.state = "failed" /\ lastOp = "construct" /\ result = UnknownType
    /\ sMetrics # <<>>

\* C9: under the elapsed-time policy an observed metric update at time t
\* triggers Session.update() iff t - last >= threshold, last being the
\* time of construction until the first triggered update and then the
\* time the latest triggered update finished; two triggered updates are
\* at least threshold apart; an update observed earlier changes neither
\* the timestamp nor the output.
LastRef == IF trigLog = <<>> THEN builtAt ELSE Last(trigLog).finish

C9_State ==
    (mgr.state = "live" /\ mgr.type = "seconds") =>
        /\ mgr.last = LastRef
        /\ \A i, j \in 1..Len(trigLog) :
               i < j => trigLog[j].start - trigLog[i].finish >= mgr.freq

C9_Step ==
    (mgr.type = "seconds" /\ Len(obsLog') = Len(obsLog) + 1) =>
        IF now - LastRef >= mgr.freq
        THEN /\ Len(trigLog') = Len(trigLog) + 1
             /\ Last(trigLog').start = now
             /\ Last(trigLog').finish = now'
             /\ nUpdates' = nUpdates + 1
        ELSE /\ trigLog' = trigLog
             /\ mgr'.last = mgr.last
             /\ UNCHANGED outputs

C9_ElapsedPolicy == [](C9_State) /\ [][C9_Step]_vars

\* a triggered update took one tick, and the next update, observed at the
\* instant it finished, triggered nothing
C9_Witness ==
    /\ mgr.type = "seconds" /\ mgr.freq = 1
    /\ Len(trigLog) = 1 /\ trigLog[1].finish > trigLog[1].start
    /\ Len(obsLog) = 2 /\ lastOp = "invoke" /\ now = trigLog[1].finish

\* C10: the history of a numeric metric is the sequence of the values it
\* was invoked with, an initial value counting as the first invocation,
\* in call order; the current value is the last of them; no step removes
\* or rewrites an earlier entry.
C10_State ==
    \A m \in Metrics :
        /\ values[m] = hist[m]
        /\ hist[m] # <<>> =>
               (HasValue(values, m) /\ Value(values, m) = Last(hist[m]))

C10_Step == \A m \in Metrics : IsPrefix(values[m], values'[m])

C10_History == [](C10_State) /\ [][C10_Step]_vars

\* a metric constructed with an initial value was invoked twice more
C10_Witness ==
    \E m \in Metrics : hist[m] = <<0, 1, 0>> /\ lastOp = "invoke"

\* the callbacks the call of the last step notified, by position in trace
Notified(tr) == {i \in 1..Len(tr) : tr[i][1] = "notify"}

\* how often the call notified callback cb of metric m
NotifyCount(tr, m, cb) ==
    Cardinality({i \in Notified(tr) : tr[i][2] = m /\ tr[i][3] = cb})

\* the metric a read or a shorthand of the last step was applied to
Target(tr) == tr[1][2]

\* C11: on a numeric metric that was never invoked, reading the value
\* raises ValueError "Metric has not been assigned a value yet." and so
\* does every compound-update shorthand; the histories stay empty, no
\* callback of the metric is notified and the session is not updated.
C11_Step ==
    (lastOp' \in {"read", "compound"} /\ values[Target(trace')] = <<>>) =>
        /\ result' = Uninitialized
        /\ values' = values /\ times' = times /\ startTime' = startTime
        /\ Notified(trace') = {}
        /\ obsLog' = obsLog /\ trigLog' = trigLog
        /\ UNCHANGED outputs

C11_Uninitialized == [][C11_Step]_vars

\* a shorthand was applied to a never-invoked metric that has a callback
\* of the script and the counting callback of a manager that updates the
\* session on every metric update
C11_Witness ==
    /\ lastOp = "compound" /\ result = Uninitialized
    /\ values[Target(trace)] = <<>>
    /\ InSeq("cb", mcbs[Target(trace)])
    /\ InSeq("pmu", mcbs[Target(trace)])
    /\ mgr.freq = 1 /\ phase = "managing"

\* bit i of the two's-complement representation of x
Bit(x, i) == (x \div (2 ^ i)) % 2
\* the bit positions compared: the values of the model stay below 2^12
Bits == 0..12

\* r is v <op> k, stated by arithmetic on integers
Expected(op, v, k, r) ==
    CASE op = "add" -> r - k = v
      [] op = "sub" -> r + k = v
      [] op = "mul" -> (k = 0 => r = 0) /\ (k = 1 => r = v)
                       /\ (k = 2 => r = v + v)
      [] op = "floordiv" -> k * r <= v /\ v < k * r + k
      [] op = "mod" -> 0 <= r /\ r < k
                       /\ \E q \in -4096..4096 : v = q * k + r
      [] op = "pow" -> (k = 0 => r = 1) /\ (k = 1 => r = v)
                       /\ (k = 2 => r = v * v)
      [] op = "lshift" -> (k = 0 => r = v) /\ (k = 1 => r = v + v)
                          /\ (k = 2 => r = v + v + v + v)
      [] op = "rshift" -> (2 ^ k) * r <= v /\ v < (2 ^ k) * r + (2 ^ k)
      [] op = "and" ->
             /\ \A i \in Bits :
                    Bit(r, i) = 1 <=> (Bit(v, i) = 1 /\ Bit(k, i) = 1)
             /\ r < 0 <=> (v < 0 /\ k < 0)
      [] op = "or" ->
             /\ \A i \in Bits :
                    Bit(r, i) = 1 <=> (Bit(v, i) = 1 \/ Bit(k, i) = 1)
             /\ r < 0 <=> (v < 0 \/ k < 0)
      [] op = "xor" ->
             /\ \A i \in Bits :
                    Bit(r, i) = 1 <=> (Bit(v, i) # Bit(k, i))
             /\ r < 0 <=> ((v < 0) # (k < 0))

\* C12: `metric <op>= k` on a numeric metric whose current value is v
\* appends exactly one entry, equal to v <op> k, to the history and
\* leaves the earlier entries and the other metrics alone; the current
\* value becomes v <op> k; every registered callback of the metric is
\* notified exactly once.  (v // 0 and v % 0 raise ZeroDivisionError
\* before anything is appended.)
C12_Step ==
    (lastOp' = "compound" /\ values[Target(trace')] # <<>>) =>
        LET m == Target(trace')
            op == trace'[1][3]
            k == trace'[1][4]
            v == Value(values, m)
        IN  /\ result' = Ok <=> ~(op \in {"floordiv", "mod"} /\ k = 0)
            /\ result' = Ok =>
                   /\ Len(values'[m]) = Len(values[m]) + 1
                   /\ IsPrefix(values[m], values'[m])
                   /\ Expected(op, v, k, Value(values', m))
                   /\ \A x \in Metrics \ {m} : values'[x] = values[x]
                   /\ \A cb \in {"cb", "pmu"} :
                          NotifyCount(trace', m, cb) = Count(cb, mcbs[m])
                   /\ Cardinality(Notified(trace')) = Len(mcbs[m])

C12_Compound == [][C12_Step]_vars

\* a shorthand was applied to a negative current value of a metric with
\* two callbacks, after an earlier shorthand
C12_Witness ==
    /\ lastOp = "compound" /\ result = Ok
    /\ Len(mcbs[Target(trace)]) = 2
    /\ Len(values[Target(trace)]) = 3
    /\ values[Target(trace)][2] < 0
    /\ trace[1][3] = "and"

\* the last step flushed metric m: metric.serialize() by the script, or a
\* Session.update() that serializes, directly or through the manager
FlushedBy(op, tr, ms, m) ==
    \/ op = "serialize" /\ Target(tr) = m
    \/ /\ op \in {"update", "invoke", "compound"}
       /\ \E i \in 1..Len(tr) : tr[i][1] = "serialize"
       /\ InSeq(m, ms)

\* the metrics that have a target of their own in the specifications
Flushable == {"m0", "m1"}

\* C13: flushing a serializable metric a second time, with no observation
\* since the previous flush, appends nothing to the target, whatever the
\* history, the empty history included.
C13_Step ==
    \A m \in Flushable :
        (FlushedBy(lastOp, trace, sMetrics, m)
         /\ lastOp' = "serialize" /\ Target(trace') = m) =>
            files'[Name(m)] = files[Name(m)]

C13_FlushTwice == [][C13_Step]_vars

HeaderLines(n) == SelectSeq(files[n], LAMBDA l : l \in Headers)

\* C14: once a target has been flushed to, it holds exactly one header
\* line and that is its first line, for every interleaving of invocations
\* and flushes, also when a session is updated while one of its metrics
\* has not been invoked yet.
C14_OneHeader ==
    \A n \in Names :
        files[n] # <<>> =>
            (files[n][1] \in Headers /\ Len(HeaderLines(n)) = 1)

\* the rows of the history of m up to entry k
Rows(m, k) == [i \in 1..k |-> LineOf(m, i)]

\* C15: the data rows in the target of a serializable metric are the
\* entries of its history before the cursor, one row per entry in call
\* order, none twice and none skipped; the cursor never passes the end of
\* the history and is at the end right after a flush, so that the rows
\* are then the whole history.  Row i of a timed metric is the pair
\* (times[i], values[i]).
C15_State ==
    \A m \in Flushable :
        /\ sidx[m] <= Len(values[m])
        /\ IsTimed(m) => Len(times[m]) = Len(values[m])
        /\ DataLines(Name(m)) = Rows(m, sidx[m])

C15_Step ==
    \A m \in Flushable :
        FlushedBy(lastOp', trace', sMetrics', m) =>
            /\ sidx'[m] = Len(values'[m])
            /\ IsPrefix(files[Name(m)], files'[Name(m)])

C15_Rows == [](C15_State) /\ [][C15_Step]_vars

\* the timed metric was flushed by the script twice and never otherwise;
\* its three rows carry different elapsed times
C15_Witness ==
    /\ lastOp = "serialize" /\ Target(trace) = "m1"
    /\ nFlush = 2 /\ nDirect = 0 /\ files["a"] = <<>>
    /\ sidx["m1"] = 3
    /\ times["m1"][1] < times["m1"][2] /\ times["m1"][2] < times["m1"][3]
    /\ Len(HeaderLines("b")) = 1

\* C16: the time sequence and the value sequence of a timed-numeric
\* metric have the same length after every observation, and every
\* callback of the metric sees them with the same length, the new entry
\* included, when it runs.
C16_State ==
    \A m \in Metrics : IsTimed(m) => Len(times[m]) = Len(values[m])

C16_Step ==
    \A i \in Notified(trace') :
        IsTimed(trace'[i][2]) =>
            /\ trace'[i][4] = trace'[i][5]
            /\ trace'[i][4] = Len(values[trace'[i][2]]) + 1

C16_Aligned == [](C16_State) /\ [][C16_Step]_vars

\* the second observation of the timed metric reached the manager's
\* callback, which updated the session
C16_Witness ==
    /\ lastOp = "invoke" /\ Len(values["m1"]) = 2
    /\ \E i \in Notified(trace) : trace[i][2] = "m1" /\ trace[i][3] = "pmu"
    /\ \E i \in 1..Len(trace) : trace[i][1] = "serialize"

\* the position in tr of the entry <<tag, m>>
Pos(tr, tag, m) == CHOOSE i \in 1..Len(tr) : tr[i] = <<tag, m>>

\* the call of the step appended to the histories of the timed metric m
Observed(tr, m) == IsTimed(m) /\ InSeq(<<"value", m>>, tr)

\* C17, as stated: on each observation of a timed-numeric metric the
\* elapsed time is appended before the value, and both before any
\* callback is notified.
C17_TimeFirst ==
    [][\A m \in Metrics :
           Observed(trace', m) =>
               /\ InSeq(<<"time", m>>, trace')
               /\ Pos(trace', "time", m) < Pos(trace', "value", m)
               /\ \A i \in Notified(trace') : Pos(trace', "value", m) < i]_vars

\* C17, amended: on each observation of a timed-numeric metric the value
\* is appended to the value sequence first, then the elapsed time
\* now - start_time (start_time being now on the first observation) to
\* the time sequence, and both before any callback is notified.
C17_Step ==
    \A m \in Metrics :
        Observed(trace', m) =>
            /\ InSeq(<<"time", m>>, trace')
            /\ Pos(trace', "value", m) < Pos(trace', "time", m)
            /\ \A i \in Notified(trace') : Pos(trace', "time", m) < i
            /\ Len(times'[m]) = Len(times[m]) + 1
            /\ Last(times'[m]) =
                   now - (IF startTime[m] = NoTime THEN now ELSE startTime[m])

C17_ValueFirst == [][C17_Step]_vars

\* the timed metric was observed a second time, later than the first, and
\* its callback was notified
C17_Witness ==
    /\ lastOp = "invoke" /\ Observed(trace, "m1")
    /\ Len(times["m1"]) = 2 /\ times["m1"][2] > 0
    /\ Notified(trace) # {}

\* the name of metric m is taken in the session
NameTaken(m) == \E i \in 1..Len(sMetrics) : Name(sMetrics[i]) = Name(m)

\* C18: add_metric with a metric whose name a metric of the session
\* already has raises the duplicate-name error and leaves the metric list
\* unchanged, tells no observer on_metric_add and subscribes no callback
\* of a manager; any other add_metric appends the metric.  So the names
\* of the metrics of a session are pairwise distinct.
C18_State ==
    \A i, j \in 1..Len(sMetrics) :
        i # j => Name(sMetrics[i]) # Name(sMetrics[j])

C18_Step ==
    lastOp' = "add_metric" =>
        IF NameTaken(Target(trace'))
        THEN /\ result' = DuplicateName
             /\ sMetrics' = sMetrics
             /\ events' = events
             /\ mcbs' = mcbs
        ELSE /\ result' = Ok
             /\ sMetrics' = Append(sMetrics, Target(trace'))

C18_DuplicateName == [](C18_State) /\ [][C18_Step]_vars

\* a second metric object named like a metric of the session was
\* rejected while a manager was managing the session
C18_Witness ==
    /\ lastOp = "add_metric" /\ result = DuplicateName
    /\ ~InSession(Target(trace)) /\ NameTaken(Target(trace))
    /\ phase = "managing" /\ InSeq("usr", sCallbacks)

\* the observers supplied at construction: all but the manager's
Supplied == SelectSeq(sCallbacks, LAMBDA cb : cb # "mgr")

EventsOf(tag) == SelectSeq(events, LAMBDA e : e[1] = tag)

\* C19: an observer supplied at construction is told on_session_start
\* once, when all supplied observers are registered and before any
\* on_metric_add; then on_metric_add once per metric added, at
\* construction or later, in the order of adding and with that metric;
\* and on_update once per Session.update().  With m + a metrics and u
\* updates that makes 1 + m + a + u events.
C19_State ==
    InSeq("usr", sCallbacks) =>
        /\ events # <<>>
        /\ events[1] = <<"start", Len(Supplied)>>
        /\ Len(EventsOf("start")) = 1
        /\ EventsOf("add") = [i \in 1..Len(sMetrics) |-> <<"add", sMetrics[i]>>]
        /\ Len(EventsOf("update")) = nUpdates
        /\ Len(events) = 1 + Len(sMetrics) + nUpdates

C19_Step ==
    InSeq("usr", sCallbacks) =>
        /\ (lastOp' = "add_metric" /\ result' = Ok) =>
               events' = Append(events, <<"add", Target(trace')>>)
        /\ nUpdates' # nUpdates =>
               (nUpdates' = nUpdates + 1
                /\ events' = Append(events, <<"update">>))
        /\ IsPrefix(events, events')

UpdateSteps(tr) ==
    SelectSeq(tr, LAMBDA e : e[1] \in {"plot", "serialize", "on_update"})

\* the plottable metrics of the session, in order
Plotted(ms) == SelectSeq(ms, IsPlottable)

\* C20: Session.update() plots if plot_metrics was set, then serializes
\* if serialize_metrics was set, each over all the metrics the session
\* then has that can be plotted or serialized, and only then tells every
\* observer on_update, in the order of registration; it tells them also
\* when neither action was selected.
C20_Step ==
    nUpdates' = nUpdates + 1 =>
        /\ UpdateSteps(trace') =
               (IF plotMetrics THEN <<(<<"plot">>)>> ELSE <<>>)
               \o (IF serializeMetrics THEN <<(<<"serialize">>)>> ELSE <<>>)
               \o [i \in 1..Len(sCallbacks) |-> <<"on_update", sCallbacks[i]>>]
        /\ IF plotMetrics
           THEN /\ Len(html') = 1
                /\ Len(html'[1]) = Len(Plotted(sMetrics))
                /\ \A i \in 1..Len(Plotted(sMetrics)) :
                       /\ html'[1][i].name = Name(Plotted(sMetrics)[i])
                       /\ html'[1][i].y = values'[Plotted(sMetrics)[i]]
           ELSE html' = html
        /\ IF serializeMetrics
           THEN \A m \in Metrics :
                    IF InSession(m) /\ IsSerializable(m)
                    THEN /\ sidx'[m] = Len(values'[m])
                         /\ DataLines(Name(m))' = [i \in 1..Len(values'[m]) |->
                                                      LineOf(m, i)']
                    ELSE /\ sidx'[m] = sidx[m]
                         /\ InSession(m) => files'[Name(m)] = files[Name(m)]
           ELSE files' = files /\ sidx' = sidx
        /\ InSeq("usr", sCallbacks) => Last(events') = <<"update">>

C20_UpdateOrder == [][C20_Step]_vars

\* a session holding a plain metric and two numeric ones, with both
\* actions selected, was updated by its manager
C20_Witness ==
    /\ plotMetrics /\ serializeMetrics
    /\ lastOp = "invoke" /\ UpdateSteps(trace) # <<>>
    /\ InSession("m3") /\ Len(sMetrics) = 3
    /\ Len(html[1]) = 2
    /\ files["c"] = <<>> /\ files["b"] # <<>>

\* the notifications the call of the last step made, in order
Notifications(tr) == SelectSeq(tr, LAMBDA e : e[1] = "notify")

\* C21: an invocation of a metric appends the value to the history and
\* then calls every callback registered on the metric, once per
\* registration and in registration order, with the metric itself, whose
\* current value is then the new value; all of it, and what the callbacks
\* do, has happened when the invocation returns.
C21_Step ==
    lastOp' = "invoke" =>
        \A m \in Metrics :
            values'[m] # values[m] =>
                LET ns == Notifications(trace')
                IN  /\ values'[m] = Append(values[m], Last(hist'[m]))
                    /\ Len(ns) = Len(mcbs[m])
                    /\ \A i \in 1..Len(ns) :
                           /\ ns[i][2] = m
                           /\ ns[i][3] = mcbs[m][i]
                           /\ ns[i][4] = Len(values[m]) + 1
                           /\ ns[i][6] = Last(hist'[m])
                    /\ \A i \in Notified(trace') : Pos(trace', "value", m) < i
                    /\ (InSeq("pmu", mcbs[m]) /\ mgr.freq = 1) =>
                           Flushed(m, Len(values[m]))'

C21_Notify == [][C21_Step]_vars

\* the script's callback was registered before and after the manager's:
\* three notifications, the second of which updated the session
C21_Witness ==
    /\ lastOp = "invoke"
    /\ mcbs["m0"] = <<"cb", "pmu", "cb">>
    /\ Len(Notifications(trace)) = 3
    /\ Len(values["m0"]) = 2

\* t is s without one of its entries x
RemovedOne(s, t, x) ==
    \E i \in 1..Len(s) :
        s[i] = x /\ t = SubSeq(s, 1, i - 1) \o SubSeq(s, i + 1, Len(s))

\* C22: removing a callback from a metric, or an observer from a session,
\* that is not registered there raises an error and leaves the list
\* unchanged; removing a registered one takes away exactly one occurrence
\* and keeps the other entries in their order.
C22_Step ==
    /\ lastOp' = "remove_callback" =>
           LET m == Target(trace')
           IN  /\ IF InSeq("cb", mcbs[m])
                  THEN result' = Ok /\ RemovedOne(mcbs[m], mcbs'[m], "cb")
                  ELSE result' = NotInList /\ mcbs'[m] = mcbs[m]
               /\ \A x \in Metrics \ {m} : mcbs'[x] = mcbs[x]
               /\ sCallbacks' = sCallbacks
    /\ lastOp' = "remove_observer" =>
           LET cb == Target(trace')
           IN  /\ IF InSeq(cb, sCallbacks)
                  THEN result' = Ok /\ RemovedOne(sCallbacks, sCallbacks', cb)
                  ELSE result' = NotInList /\ sCallbacks' = sCallbacks
               /\ mcbs' = mcbs

C22_Remove == [][C22_Step]_vars

\* one of the two registrations of the script's callback was removed, the
\* other is still behind the manager's callback
C22_Witness ==
    /\ lastOp = "remove_callback" /\ result = Ok
    /\ mcbs["m0"] = <<"pmu", "cb">>

\* the manager observes the session: its session-level observer is
\* registered and its counting callback is on every metric of the session
Observing ==
    /\ InSeq("mgr", sCallbacks)
    /\ \A m \in Metrics : InSession(m) => InSeq("pmu", mcbs[m])

\* C24: in every reachable state the manager's flag _managing is true
\* exactly when the manager observes the session: false before manage(),
\* true between manage() and close(), false again after close().
C24_Managing == mgr.state = "live" => (mgr.managing <=> Observing)

\* C25: a Session.update() the manager did not trigger (the script's, or
\* SessionServer.add_session's) leaves the manager's throttling state as
\* it was: the counter of the count policy and the timestamp of the
\* elapsed-time policy keep their values, so whether an observed metric
\* update triggers depends only on the observed updates and the triggered
\* ones, never on the direct calls.
C25_State ==
    mgr.state = "live" =>
        /\ mgr.type = "updates" =>
               /\ mgr.num = Len(obsLog) % mgr.freq
               /\ Len(trigLog) = Len(obsLog) \div mgr.freq
        /\ mgr.type = "seconds" => mgr.last = LastRef

C25_Step ==
    /\ lastOp' = "update" =>
           /\ mgr' = mgr /\ trigLog' = trigLog /\ obsLog' = obsLog
           /\ nUpdates' = nUpdates + 1
    /\ Len(obsLog') = Len(obsLog) + 1 =>
           (Len(trigLog') = Len(trigLog) + 1
              <=> IF mgr.type = "seconds" THEN now - LastRef >= mgr.freq
                  ELSE Len(obsLog') % mgr.freq = 0)

C25_DirectUpdate == [](C25_State) /\ [][C25_Step]_vars

\* the script updated the session while one of the two updates the count
\* policy waits for was counted: the value is flushed, the counter stays
C25_Witness ==
    /\ lastOp = "update" /\ phase = "managing"
    /\ mgr.type = "updates" /\ mgr.freq = 2 /\ mgr.num = 1
    /\ Flushed("m0", 1)

\* C23: on_session_start is delivered at the end of the initialization of
\* the session: the observer then finds the session initialized, reads in
\* session.metrics the metrics supplied at construction and can call
\* session.update().
C23_StartAtEnd ==
    lastOp = "init" =>
        \A i \in 1..Len(events) :
            events[i][1] = "probe" =>
                events[i] = <<"probe", TRUE, Len(sMetrics), TRUE>>

\* the Session.update() calls the last step began, each with the number
\* of updates then on the stack
UpdatesBegun(tr) == SelectSeq(tr, LAMBDA e : e[1] = "update_begin")

\* C26: under the count policy one observed metric update triggers at most
\* one Session.update(): a managed metric invoked by an on_update observer
\* inside a manager-triggered update does not start another
\* Session.update() before the first has returned, so that manager-
\* triggered updates are never nested.
C26_NoNestedUpdate ==
    (lastOp = "invoke" /\ mgr.type = "updates") =>
        \A i \in 1..Len(UpdatesBegun(trace)) : UpdatesBegun(trace)[i][2] = 1

\* the metric updates the call of the last step made
ValuesAppended(tr) == SelectSeq(tr, LAMBDA e : e[1] = "value")

\* C27: when a callback is removed from a metric while the metric notifies
\* its callbacks (SessionManager.close() called from an on_update observer
\* during a manager-triggered update removes the counting callback), every
\* other callback registered on the metric when the invocation started is
\* still notified once per registration for that invocation (an
\* invocation that returns, and that no observer answers with a further
\* invocation).
C27_Step ==
    (lastOp' = "invoke" /\ result' = Ok
        /\ Len(ValuesAppended(trace')) = 1) =>
        \A m \in Metrics :
            values'[m] # values[m] =>
                NotifyCount(trace', m, "cb") = Count("cb", mcbs[m])

C27_RemovedWhileNotifying == [][C27_Step]_vars

\* C28: when Session.update() fails while the manager triggered it under
\* the count policy, the failure reaches the caller of the metric, the
\* invoked value stays in the history and the counter keeps its value,
\* neither reset nor incremented; the counter then still stands at the
\* threshold, and every observed update that finds it there triggers
\* Session.update(), so the next one triggers again.
C28_Step ==
    /\ (lastOp' = "invoke" /\ result' # Ok) =>
           LET m == Target(trace')
           IN  /\ result' = ObserverError
               /\ UpdatesBegun(trace') # <<>>
               /\ values'[m] = Append(values[m], calls)
               /\ mgr' = mgr
               /\ mgr'.num + 1 >= mgr'.freq
               /\ trigLog' = trigLog
               /\ Len(obsLog') = Len(obsLog) + 1
    /\ (lastOp' = "invoke" /\ mgr.type = "updates"
           /\ InSeq("pmu", mcbs[Target(trace')])
           /\ mgr.num + 1 >= mgr.freq) =>
           UpdatesBegun(trace') # <<>>

C28_FailedUpdate == [][C28_Step]_vars

\* threshold 2: the second update of m0 triggered an update that failed,
\* the failing observer was removed, and the third update triggered again
C28_Witness ==
    /\ lastOp = "invoke" /\ result = Ok
    /\ mgr.type = "updates" /\ mgr.freq = 2 /\ mgr.num = 0
    /\ Len(obsLog) = 3 /\ Len(trigLog) = 1
    /\ Len(values["m0"]) = 3

====
